---- MODULE Spec2Model ----
(***************************************************************************)
(* A model of the SparseMatrix class of                                    *)
(* dsa/sparse-matrix-project/src/main.py: the coordinate-text reader, the  *)
(* element accessors, the serializer __str__ and the three arithmetic      *)
(* operators __add__, __sub__ and __mul__.                                 *)
(*                                                                         *)
(* A matrix value is a record [num_rows, num_cols, elements] whose         *)
(* `elements` is a Python dict: a function from a finite set of            *)
(* <<row, col>> keys to integers.  Python integers are unbounded, so the   *)
(* model computes in Int.  The loops over a dict visit every key exactly   *)
(* once and their bodies touch only that key, so the model visits the keys *)
(* in one fixed order.                                                     *)
(***************************************************************************)
EXTENDS Integers, Sequences, FiniteSets, TLC

(***************************************************************************)
(* Bounds of the model.                                                    *)
(***************************************************************************)
\* dimensions are drawn from 1..MaxDim, coordinates from 0..MaxDim-1
MaxDim == 2
\* values written by set_element and by input files are in -MaxVal..MaxVal
MaxVal == 1
\* most entries of a matrix that is an operand in SpecArith
MaxOperandEntries == 3
\* most entries of the matrix of SpecSet and of the matrices of SpecText
MaxEntries == 2
\* number of SparseMatrix objects that are alive at once
NumObj == 3
\* most entries, over all live objects, up to which set_element and files
\* add entries in Spec
MaxHeapEntries == 1

Dims == 1..MaxDim
Coords == 0..(MaxDim - 1)
Keys == Coords \X Coords
Vals == (-MaxVal)..MaxVal
Ids == 1..NumObj

(***************************************************************************)
(* Python dict primitives.                                                 *)
(***************************************************************************)
\* {}
EmptyDict == << >>

\* d[k] = v
DictPut(d, k, v) == [x \in (DOMAIN d) \cup {k} |-> IF x = k THEN v ELSE d[x]]

\* del d[k]
DictDel(d, k) == [x \in (DOMAIN d) \ {k} |-> d[x]]

\* d.get(k, default)
DictGet(d, k, default) == IF k \in DOMAIN d THEN d[k] ELSE default

\* the key a loop over the keys S visits first
FirstKey(S) == CHOOSE k \in S : \A o \in S :
                   \/ k[1] < o[1]
                   \/ k[1] = o[1] /\ k[2] <= o[2]

(***************************************************************************)
(* SparseMatrix: construction by dimensions and the accessors.             *)
(***************************************************************************)
\* SparseMatrix(num_rows=nr, num_cols=nc)
NewMatrix(nr, nc) == [num_rows |-> nr, num_cols |-> nc, elements |-> EmptyDict]

get_element(M, row, col) == DictGet(M.elements, <<row, col>>, 0)

\* a set_element that stores the zero instead of deleting the key
set_element_keep_zero(M, row, col, value) ==
    [M EXCEPT !.elements = DictPut(@, <<row, col>>, value)]

set_element(M, row, col, value) ==
    IF value # 0
    THEN [M EXCEPT !.elements = DictPut(@, <<row, col>>, value)]
    ELSE IF <<row, col>> \in DOMAIN M.elements
         THEN [M EXCEPT !.elements = DictDel(@, <<row, col>>)]
         ELSE M

(***************************************************************************)
(* The results of the operations that can raise.  The code raises          *)
(* ValueError in both cases; the kinds are told apart by the message:      *)
(* "Matrices dimensions do not match ..." is DimensionMismatch and         *)
(* "Input file has wrong format: ..." is FormatError.                      *)
(***************************************************************************)
Returned(M) == [err |-> "none", value |-> M]
Raised(kind) == [err |-> kind]

(***************************************************************************)
(* __add__                                                                 *)
(***************************************************************************)
\* for (row, col), value in src.items(): result.elements[(row, col)] = value
RECURSIVE CopyEntries(_, _, _)
CopyEntries(result, src, todo) ==
    IF todo = {} THEN result
    ELSE LET k == FirstKey(todo)
         IN CopyEntries([result EXCEPT !.elements = DictPut(@, k, src[k])],
                        src, todo \ {k})

\* the second loop of __add__
RECURSIVE AddEntries(_, _, _)
AddEntries(result, other, todo) ==
    IF todo = {} THEN result
    ELSE LET k == FirstKey(todo)
             sum == get_element(result, k[1], k[2]) + other[k]
             put == [result EXCEPT !.elements = DictPut(@, k, sum)]
             nxt == IF put.elements[k] = 0
                    THEN [put EXCEPT !.elements = DictDel(@, k)]
                    ELSE put
         IN AddEntries(nxt, other, todo \ {k})

\* an __add__ that checks only the number of rows
AddRowsOnly(A, B) ==
    IF A.num_rows # B.num_rows
    THEN Raised("DimensionMismatch")
    ELSE Returned(AddEntries(
             CopyEntries(NewMatrix(A.num_rows, A.num_cols), A.elements, DOMAIN A.elements),
             B.elements, DOMAIN B.elements))

\* an __add__ whose second loop overwrites instead of summing
AddOverwrite(A, B) ==
    IF A.num_rows # B.num_rows \/ A.num_cols # B.num_cols
    THEN Raised("DimensionMismatch")
    ELSE Returned(CopyEntries(
             CopyEntries(NewMatrix(A.num_rows, A.num_cols), A.elements, DOMAIN A.elements),
             B.elements, DOMAIN B.elements))

Add(A, B) ==
    IF A.num_rows # B.num_rows \/ A.num_cols # B.num_cols
    THEN Raised("DimensionMismatch")
    ELSE Returned(AddEntries(
             CopyEntries(NewMatrix(A.num_rows, A.num_cols), A.elements, DOMAIN A.elements),
             B.elements, DOMAIN B.elements))

(***************************************************************************)
(* __sub__                                                                 *)
(***************************************************************************)
\* the second loop of __sub__
RECURSIVE SubEntries(_, _, _)
SubEntries(result, other, todo) ==
    IF todo = {} THEN result
    ELSE LET k == FirstKey(todo)
         IN SubEntries(set_element(result, k[1], k[2],
                                   get_element(result, k[1], k[2]) - other[k]),
                       other, todo \ {k})

\* a __sub__ that adds
SubAdds(A, B) ==
    IF A.num_rows # B.num_rows \/ A.num_cols # B.num_cols
    THEN Raised("DimensionMismatch")
    ELSE Returned(AddEntries(
             CopyEntries(NewMatrix(A.num_rows, A.num_cols), A.elements, DOMAIN A.elements),
             B.elements, DOMAIN B.elements))

Sub(A, B) ==
    IF A.num_rows # B.num_rows \/ A.num_cols # B.num_cols
    THEN Raised("DimensionMismatch")
    ELSE Returned(SubEntries(
             CopyEntries(NewMatrix(A.num_rows, A.num_cols), A.elements, DOMAIN A.elements),
             B.elements, DOMAIN B.elements))

(***************************************************************************)
(* __mul__                                                                 *)
(***************************************************************************)
\* self_by_row: row -> {col: value}
ByRow(elements) ==
    [i \in {k[1] : k \in DOMAIN elements} |->
        [c \in {k[2] : k \in {q \in DOMAIN elements : q[1] = i}} |-> elements[<<i, c>>]]]

\* other_by_col: col -> {row: value}
ByCol(elements) ==
    [j \in {k[2] : k \in DOMAIN elements} |->
        [r \in {k[1] : k \in {q \in DOMAIN elements : q[2] = j}} |-> elements[<<r, j>>]]]

\* sum(f[k] for k in S)
RECURSIVE SumOver(_, _)
SumOver(f, S) ==
    IF S = {} THEN 0
    ELSE LET k == CHOOSE x \in S : \A o \in S : x <= o
         IN f[k] + SumOver(f, S \ {k})

\* a product sum that keeps only the term of the smallest shared index
ProductSumFirst(row, col) ==
    LET S == (DOMAIN row) \cap (DOMAIN col)
    IN IF S = {} THEN 0
       ELSE LET k == CHOOSE x \in S : \A o \in S : x <= o
            IN row[k] * col[k]

\* sum(row.get(k, 0) * col.get(k, 0) for k in set(row) & set(col))
ProductSum(row, col) ==
    SumOver([k \in (DOMAIN row) \cap (DOMAIN col) |->
                 DictGet(row, k, 0) * DictGet(col, k, 0)],
            (DOMAIN row) \cap (DOMAIN col))

\* a __mul__ that stores every product sum, the zero ones too
RECURSIVE MulCellsKeepZero(_, _, _, _)
MulCellsKeepZero(result, self_by_row, other_by_col, todo) ==
    IF todo = {} THEN result
    ELSE LET k == FirstKey(todo)
             product_sum == ProductSum(self_by_row[k[1]], other_by_col[k[2]])
         IN MulCellsKeepZero([result EXCEPT !.elements = DictPut(@, k, product_sum)],
                             self_by_row, other_by_col, todo \ {k})

\* for i in self_by_row: for j in other_by_col: ...
RECURSIVE MulCells(_, _, _, _)
MulCells(result, self_by_row, other_by_col, todo) ==
    IF todo = {} THEN result
    ELSE LET k == FirstKey(todo)
             product_sum == ProductSum(self_by_row[k[1]], other_by_col[k[2]])
             nxt == IF product_sum # 0
                    THEN [result EXCEPT !.elements = DictPut(@, k, product_sum)]
                    ELSE result
         IN MulCells(nxt, self_by_row, other_by_col, todo \ {k})

Mul(A, B) ==
    IF A.num_cols # B.num_rows
    THEN Raised("DimensionMismatch")
    ELSE LET self_by_row == ByRow(A.elements)
             other_by_col == ByCol(B.elements)
         IN Returned(MulCells(NewMatrix(A.num_rows, B.num_cols),
                              self_by_row, other_by_col,
                              (DOMAIN self_by_row) \X (DOMAIN other_by_col)))

(***************************************************************************)
(* Text.  A str is a sequence of one-character strings, so that            *)
(* formatting and parsing are computed character by character.             *)
(***************************************************************************)
Digits == <<"0", "1", "2", "3", "4", "5", "6", "7", "8", "9">>
DigitSet == {Digits[i] : i \in 1..10}
DigitVal(c) == (CHOOSE i \in 1..10 : Digits[i] = c) - 1
\* the characters str.strip() and int() treat as whitespace
Whitespace == {" ", "\n", "\t", "\r"}

\* str(n) of a non-negative int
RECURSIVE NatToStr(_)
NatToStr(n) ==
    IF n < 10 THEN <<Digits[n + 1]>>
    ELSE NatToStr(n \div 10) \o <<Digits[(n % 10) + 1]>>

\* a str(n) that drops the sign
IntToStrNoSign(n) == IF n < 0 THEN NatToStr(-n) ELSE NatToStr(n)

\* str(n), as the f-strings of __str__ format an int
IntToStr(n) == IF n < 0 THEN <<"-">> \o NatToStr(-n) ELSE NatToStr(n)

\* s.lstrip(chars), s.rstrip(chars), s.strip(chars)
RECURSIVE LStrip(_, _)
LStrip(s, chars) ==
    IF s # << >> /\ Head(s) \in chars THEN LStrip(Tail(s), chars) ELSE s

RECURSIVE RStrip(_, _)
RStrip(s, chars) ==
    IF s # << >> /\ s[Len(s)] \in chars
    THEN RStrip(SubSeq(s, 1, Len(s) - 1), chars)
    ELSE s

Strip(s, chars) == RStrip(LStrip(s, chars), chars)

\* s.split(sep) for a one-character sep: the pieces between the separators
RECURSIVE SplitFrom(_, _, _)
SplitFrom(s, sep, piece) ==
    IF s = << >> THEN <<piece>>
    ELSE IF Head(s) = sep
         THEN <<piece>> \o SplitFrom(Tail(s), sep, << >>)
         ELSE SplitFrom(Tail(s), sep, Append(piece, Head(s)))

Split(s, sep) == SplitFrom(s, sep, << >>)

\* file.readlines(): the lines, each with its line break
RECURSIVE ReadLinesFrom(_, _)
ReadLinesFrom(s, line) ==
    IF s = << >> THEN (IF line = << >> THEN << >> ELSE <<line>>)
    ELSE IF Head(s) = "\n"
         THEN <<Append(line, "\n")>> \o ReadLinesFrom(Tail(s), << >>)
         ELSE ReadLinesFrom(Tail(s), Append(line, Head(s)))

ReadLines(s) == ReadLinesFrom(s, << >>)

\* sep.join(lines)
RECURSIVE Join(_, _)
Join(lines, sep) ==
    IF lines = << >> THEN << >>
    ELSE IF Len(lines) = 1 THEN lines[1]
         ELSE lines[1] \o sep \o Join(Tail(lines), sep)

\* the value of a str of decimal digits
RECURSIVE DigitsToNat(_, _)
DigitsToNat(s, acc) ==
    IF s = << >> THEN acc
    ELSE DigitsToNat(Tail(s), 10 * acc + DigitVal(Head(s)))

\* int(s): surrounding whitespace, one optional sign, then decimal digits;
\* anything else raises ValueError
ParseInt(s) ==
    LET t == Strip(s, Whitespace)
        signed == t # << >> /\ Head(t) \in {"-", "+"}
        body == IF signed THEN Tail(t) ELSE t
    IN IF body = << >> \/ \E i \in 1..Len(body) : body[i] \notin DigitSet
       THEN [ok |-> FALSE, val |-> 0]
       ELSE [ok |-> TRUE,
             val |-> IF signed /\ Head(t) = "-"
                     THEN -DigitsToNat(body, 0)
                     ELSE DigitsToNat(body, 0)]

(***************************************************************************)
(* __str__                                                                 *)
(***************************************************************************)
\* the order of sorted() on (row, col) tuples
KeyLess(p, q) == p[1] < q[1] \/ (p[1] = q[1] /\ p[2] < q[2])

\* sorted(keys)
RECURSIVE SortedKeys(_)
SortedKeys(S) ==
    IF S = {} THEN << >>
    ELSE LET k == CHOOSE x \in S : \A o \in S \ {x} : KeyLess(x, o)
         IN <<k>> \o SortedKeys(S \ {k})

\* f"({row}, {col}, {value})"
EntryLine(row, col, value) ==
    <<"(">> \o IntToStr(row) \o <<",", " ">> \o IntToStr(col)
            \o <<",", " ">> \o IntToStr(value) \o <<")">>

\* '\n'.join(["rows=..", "cols=..", entry lines in sorted order])
Str(M) ==
    LET keys == SortedKeys(DOMAIN M.elements)
        header == << <<"r", "o", "w", "s", "=">> \o IntToStr(M.num_rows),
                     <<"c", "o", "l", "s", "=">> \o IntToStr(M.num_cols) >>
        body == [i \in 1..Len(keys) |->
                    EntryLine(keys[i][1], keys[i][2], M.elements[keys[i]])]
    IN Join(header \o body, <<"\n">>)

(***************************************************************************)
(* _read_matrix_from_file, on the text of the file.  Every exception in    *)
(* its body (IndexError of a missing line or a missing "=", ValueError of  *)
(* int() or of the unpacking of the triple) is raised again as the         *)
(* ValueError "Input file has wrong format".                               *)
(***************************************************************************)
\* int(line.split('=')[1].strip())
HeaderValue(line) ==
    LET pieces == Split(line, "=")
    IN IF Len(pieces) < 2 THEN [ok |-> FALSE, val |-> 0]
       ELSE ParseInt(Strip(pieces[2], Whitespace))

\* row, col, value = map(int, line.strip('()\n').split(','))
EntryValue(line) ==
    LET pieces == Split(Strip(line, {"(", ")", "\n"}), ",")
        ints == [i \in 1..Len(pieces) |-> ParseInt(pieces[i])]
    IN IF Len(pieces) # 3 \/ \E i \in 1..Len(pieces) : ~ints[i].ok
       THEN [ok |-> FALSE, row |-> 0, col |-> 0, value |-> 0]
       ELSE [ok |-> TRUE, row |-> ints[1].val, col |-> ints[2].val,
             value |-> ints[3].val]

\* the loop over lines[2:]
RECURSIVE ReadEntries(_, _, _)
ReadEntries(M, lines, i) ==
    IF i > Len(lines) THEN Returned(M)
    ELSE IF Strip(lines[i], Whitespace) = << >>
         THEN ReadEntries(M, lines, i + 1)
         ELSE LET e == EntryValue(lines[i])
              IN IF ~e.ok THEN Raised("FormatError")
                 ELSE ReadEntries(
                          [M EXCEPT !.elements = DictPut(@, <<e.row, e.col>>, e.value)],
                          lines, i + 1)

\* SparseMatrix(matrix_file_path) for a file holding `text`
ReadMatrixFromFile(text) ==
    LET lines == ReadLines(text)
    IN IF Len(lines) < 2 THEN Raised("FormatError")
       ELSE LET rows == HeaderValue(lines[1])
                cols == HeaderValue(lines[2])
            IN IF ~rows.ok \/ ~cols.ok THEN Raised("FormatError")
               ELSE ReadEntries(NewMatrix(rows.val, cols.val), lines, 3)

(***************************************************************************)
(* Input files.  The files a run may read: every well-formed file with     *)
(* dimensions in Dims and at most MaxHeapEntries entry lines over Keys and *)
(* Vals, in any order; each of them with one more line that repeats the    *)
(* key of its first entry line; files with a blank line before the         *)
(* entries; and the malformed files of the parse-failure scenario.         *)
(***************************************************************************)
Triples == Keys \X Vals
EntrySeqs == UNION {[1..n -> Triples] : n \in 0..MaxHeapEntries}
RepeatSeqs == {Append(e, <<e[1][1], v>>) : e \in EntrySeqs \ {<< >>}, v \in Vals}

FileText(nr, nc, entries, blank) ==
    LET header == << <<"r", "o", "w", "s", "=">> \o IntToStr(nr),
                     <<"c", "o", "l", "s", "=">> \o IntToStr(nc) >>
        body == [i \in 1..Len(entries) |->
                    EntryLine(entries[i][1][1], entries[i][1][2], entries[i][2])]
    IN Join(header \o (IF blank THEN << << >> >> ELSE << >>) \o body, <<"\n">>)

WellFormedFiles ==
    {FileText(nr, nc, e, FALSE) : nr \in Dims, nc \in Dims, e \in EntrySeqs \cup RepeatSeqs}
    \cup {FileText(nr, nc, e, TRUE) : nr \in {1}, nc \in {1}, e \in [1..1 -> Triples]}

MalformedFiles ==
    { <<"r", "o", "w", "s", "=", "t", "w", "o", "\n", "c", "o", "l", "s", "=", "2">>,
      <<"r", "o", "w", "s", "=", "2">>,
      <<"r", "o", "w", "s", " ", "2", "\n", "c", "o", "l", "s", "=", "2">>,
      <<"r", "o", "w", "s", "=", "2", "\n", "c", "o", "l", "s", "=", "2", "\n",
        "(", "1", ",", "2", ")">> }

InputFiles == WellFormedFiles \cup MalformedFiles

\* what reading each input file gives
FileResult == [t \in InputFiles |-> ReadMatrixFromFile(t)]

(***************************************************************************)
(* The objects of a run.  `heap` maps the identity of every live           *)
(* SparseMatrix object to its value; every object owns its own dict        *)
(* (__init__ binds self.elements to a fresh {}).  `last` records the most  *)
(* recent call: its name, the error it raised and, for an arithmetic call, *)
(* the identities of its operands and of the object it returned (0 for     *)
(* none) and the heap as it was before the call.  A set_element on the     *)
(* object an arithmetic call has just returned keeps that call's record    *)
(* and marks it touched.                                                   *)
(***************************************************************************)
VARIABLES heap, last, argA, argB, ret, hist

vars == <<heap, last, argA, argB, ret, hist>>

\* the value of the variables a specification does not use
Idle == << >>

Arith == {"add", "sub", "mul"}

Live == DOMAIN heap
FreeIds == Ids \ Live
\* the identity the next new object gets
NewId == CHOOSE i \in FreeIds : \A o \in FreeIds : i <= o

\* number of entries stored over all live objects
RECURSIVE HeapEntries(_, _)
HeapEntries(h, ids) ==
    IF ids = {} THEN 0
    ELSE LET i == CHOOSE x \in ids : TRUE
         IN Cardinality(DOMAIN h[i].elements) + HeapEntries(h, ids \ {i})

\* every stored value of M is in Vals
Small(M) == \A k \in DOMAIN M.elements : M.elements[k] \in Vals

Call(op, a, b, r, err, pre) ==
    [op |-> op, a |-> a, b |-> b, r |-> r, err |-> err, pre |-> pre,
     touched |-> FALSE]

Init ==
    /\ heap = EmptyDict
    /\ last = Call("init", 0, 0, 0, "none", EmptyDict)
    /\ argA = Idle /\ argB = Idle /\ ret = Idle /\ hist = Idle

\* m = SparseMatrix(num_rows=nr, num_cols=nc)
Construct(nr, nc) ==
    /\ FreeIds # {}
    /\ heap' = DictPut(heap, NewId, NewMatrix(nr, nc))
    /\ last' = Call("construct", 0, 0, 0, "none", EmptyDict)
    /\ UNCHANGED <<argA, argB, ret, hist>>

\* m = SparseMatrix(path), the file at path holding `text`
Load(text) ==
    /\ FreeIds # {}
    /\ LET res == FileResult[text]
       IN IF res.err = "none"
          THEN /\ HeapEntries(heap, Live) + Cardinality(DOMAIN res.value.elements)
                      <= MaxHeapEntries
               /\ heap' = DictPut(heap, NewId, res.value)
               /\ last' = Call("load", 0, 0, 0, "none", EmptyDict)
          ELSE /\ heap' = heap
               /\ last' = Call("load", 0, 0, 0, res.err, EmptyDict)
    /\ UNCHANGED <<argA, argB, ret, hist>>

\* heap[id].set_element(row, col, value)
SetElementStep(id, row, col, value) ==
    /\ id \in Live
    /\ \/ value = 0
       \/ <<row, col>> \in DOMAIN heap[id].elements
       \/ HeapEntries(heap, Live) < MaxHeapEntries
    /\ heap' = [heap EXCEPT ![id] = set_element(@, row, col, value)]
    /\ last' = IF last.op \in Arith /\ last.r = id
               THEN [last EXCEPT !.touched = TRUE]
               ELSE Call("set_element", 0, 0, 0, "none", EmptyDict)
    /\ UNCHANGED <<argA, argB, ret, hist>>

\* an arithmetic call that returns its left operand, updated in place
ApplyInPlace(op, res, a, b) ==
    IF res.err = "none"
    THEN /\ heap' = [heap EXCEPT ![a] = res.value]
         /\ last' = Call(op, a, b, a, "none", heap)
    ELSE /\ heap' = heap
         /\ last' = Call(op, a, b, 0, res.err, heap)

\* the effect on the heap of r = heap[a] <op> heap[b]
Apply(op, res, a, b) ==
    IF res.err = "none"
    THEN /\ FreeIds # {}
         /\ heap' = DictPut(heap, NewId, res.value)
         /\ last' = Call(op, a, b, NewId, "none", heap)
    ELSE /\ heap' = heap
         /\ last' = Call(op, a, b, 0, res.err, heap)

\* heap[a] + heap[b]
AddStep(a, b) ==
    /\ a \in Live /\ b \in Live
    /\ Small(heap[a]) /\ Small(heap[b])
    /\ Apply("add", Add(heap[a], heap[b]), a, b)
    /\ UNCHANGED <<argA, argB, ret, hist>>

\* heap[a] - heap[b]
SubStep(a, b) ==
    /\ a \in Live /\ b \in Live
    /\ Small(heap[a]) /\ Small(heap[b])
    /\ Apply("sub", Sub(heap[a], heap[b]), a, b)
    /\ UNCHANGED <<argA, argB, ret, hist>>

\* heap[a] * heap[b]
MulStep(a, b) ==
    /\ a \in Live /\ b \in Live
    /\ Small(heap[a]) /\ Small(heap[b])
    /\ Apply("mul", Mul(heap[a], heap[b]), a, b)
    /\ UNCHANGED <<argA, argB, ret, hist>>

\* the last reference to heap[id] is dropped
Discard(id) ==
    /\ id \in Live
    /\ heap' = DictDel(heap, id)
    /\ last' = Call("discard", 0, 0, 0, "none", EmptyDict)
    /\ UNCHANGED <<argA, argB, ret, hist>>

Next ==
    \/ \E nr \in Dims, nc \in Dims : Construct(nr, nc)
    \/ \E text \in InputFiles : Load(text)
    \/ \E id \in Ids, row \in Coords, col \in Coords, value \in Vals :
           SetElementStep(id, row, col, value)
    \/ \E a \in Ids, b \in Ids : AddStep(a, b)
    \/ \E a \in Ids, b \in Ids : SubStep(a, b)
    \/ \E a \in Ids, b \in Ids : MulStep(a, b)
    \/ \E id \in Ids : Discard(id)

Spec == Init /\ [][Next]_vars

(***************************************************************************)
(* Claims checked on the objects of a run (specification Spec).           *)
(***************************************************************************)
NoStoredZero(M) == \A k \in DOMAIN M.elements : M.elements[k] # 0

InBounds(M) ==
    \A k \in DOMAIN M.elements :
        /\ 0 <= k[1] /\ k[1] < M.num_rows
        /\ 0 <= k[2] /\ k[2] < M.num_cols

\* C1: Invariant I1 in every reachable state: no live matrix, however it was
\* obtained (by dimensions, from a file, by set_element, by an arithmetic
\* call), stores a key whose value is 0.
C1_NoStoredZeroEver == \A id \in Live : NoStoredZero(heap[id])

\* the dimension check the operation `op` is documented to make
Mismatch(op, A, B) ==
    IF op = "mul" THEN A.num_cols # B.num_rows
    ELSE A.num_rows # B.num_rows \/ A.num_cols # B.num_cols

\* C5: an arithmetic call raises DimensionMismatch exactly when its
\* operands fail the operation's dimension check (equal shapes for add and
\* sub, inner dimensions for mul); when it raises, no matrix is returned or
\* created and the whole heap, the operands included, is as before the call;
\* when it does not, it returns one new object.
C5_DimensionMismatch ==
    last.op \in Arith =>
        LET A == last.pre[last.a]
            B == last.pre[last.b]
        IN /\ last.err \in {"none", "DimensionMismatch"}
           /\ (last.err = "DimensionMismatch") <=> Mismatch(last.op, A, B)
           /\ last.err = "DimensionMismatch" => (last.r = 0 /\ heap = last.pre)
           /\ last.err = "none" => (last.r \in Live /\ last.r \notin DOMAIN last.pre)

\* the 1x2 + 2x1 case of the mismatch scenario: add raises, and mul of the
\* same operands would pass its check
C5_Witness ==
    /\ last.op = "add" /\ last.err = "DimensionMismatch"
    /\ last.pre[last.a].num_cols = last.pre[last.b].num_rows
    /\ last.pre[last.a].elements # EmptyDict

\* C6: an arithmetic call, failed or not, leaves every object that existed
\* before it (its operands among them, also when both are the same object)
\* with the value it had, and the object it returns is a new one: this
\* still holds after set_element calls on the returned object.
C6_OperandsUnchanged ==
    last.op \in Arith =>
        /\ last.a \in Live /\ last.b \in Live
        /\ heap[last.a] = last.pre[last.a]
        /\ heap[last.b] = last.pre[last.b]
        /\ \A id \in DOMAIN last.pre : id \in Live /\ heap[id] = last.pre[id]
        /\ last.r # 0 => (last.r \in Live /\ last.r \notin DOMAIN last.pre)
        /\ last.r = 0 => Live = DOMAIN last.pre

\* x + x was computed for a non-empty x, and set_element has since emptied
\* the result
C6_Witness ==
    /\ last.op = "add" /\ last.touched /\ last.a = last.b
    /\ heap[last.a].elements # EmptyDict
    /\ heap[last.r].elements = EmptyDict

\* C8: the matrix Add or Subtract returns stores no key whose value is 0.
C8_ResultHasNoStoredZero ==
    (last.op \in {"add", "sub"} /\ last.err = "none" /\ ~last.touched)
        => NoStoredZero(heap[last.r])

(***************************************************************************)
(* The arithmetic operators as functions of their operands (specification  *)
(* SpecArith): the operands are drawn from the matrices a file of at most  *)
(* MaxOperandEntries entries gives, stored zeros and keys outside the      *)
(* declared dimensions included; A <op> B is computed, and (A + B) - B     *)
(* after A + B.                                                            *)
(***************************************************************************)
Dicts(K, V, n) ==
    UNION {[D -> V] : D \in {D \in SUBSET K : Cardinality(D) <= n}}

\* the matrices of the given shapes with at most n entries over K and V
Matrices(shapes, K, V, n) ==
    {[num_rows |-> sh[1], num_cols |-> sh[2], elements |-> e] :
        sh \in shapes, e \in Dicts(K, V, n)}

InitArith ==
    /\ argA \in Matrices(Dims \X Dims, Keys, Vals, MaxOperandEntries)
    /\ argB \in Matrices(Dims \X Dims, Keys, Vals, MaxOperandEntries)
    /\ ret = [op |-> "none"]
    /\ heap = Idle /\ last = Idle /\ hist = Idle

\* ret = argA + argB
CallAdd ==
    /\ ret.op = "none"
    /\ ret' = [op |-> "add", res |-> Add(argA, argB)]
    /\ UNCHANGED <<heap, last, argA, argB, hist>>

\* ret = argA - argB
CallSub ==
    /\ ret.op = "none"
    /\ ret' = [op |-> "sub", res |-> Sub(argA, argB)]
    /\ UNCHANGED <<heap, last, argA, argB, hist>>

\* ret = argA * argB
CallMul ==
    /\ ret.op = "none"
    /\ ret' = [op |-> "mul", res |-> Mul(argA, argB)]
    /\ UNCHANGED <<heap, last, argA, argB, hist>>

\* ret = ret - argB, ret being argA + argB
CallSubOfSum ==
    /\ ret.op = "add" /\ ret.res.err = "none"
    /\ ret' = [op |-> "addsub", res |-> Sub(ret.res.value, argB)]
    /\ UNCHANGED <<heap, last, argA, argB, hist>>

NextArith == CallAdd \/ CallSub \/ CallMul \/ CallSubOfSum

SpecArith == InitArith /\ [][NextArith]_vars

SameShape(A, B) == A.num_rows = B.num_rows /\ A.num_cols = B.num_cols

\* C2: for same-shaped A and B, (A + B) - B has A's dimensions and
\* get_element gives on it, at every coordinate, what it gives on A.
C2_SubOfSumIsLeft ==
    (ret.op = "addsub" /\ SameShape(argA, argB)) =>
        /\ ret.res.err = "none"
        /\ SameShape(ret.res.value, argA)
        /\ DOMAIN ret.res.value.elements \subseteq Keys
        /\ \A k \in Keys :
               get_element(ret.res.value, k[1], k[2]) = get_element(argA, k[1], k[2])

\* (A + B) - B where B cancels an entry of A in the sum
C2_Witness ==
    /\ ret.op = "addsub" /\ ret.res.err = "none"
    /\ \E k \in DOMAIN argA.elements :
           /\ k \in DOMAIN argB.elements
           /\ argA.elements[k] # 0
           /\ argA.elements[k] + argB.elements[k] = 0
    /\ \E k \in DOMAIN argB.elements : k \notin DOMAIN argA.elements

\* the reference product: the sum over every k of A[i, k] * B[k, j]
RECURSIVE RefDot(_, _, _, _, _)
RefDot(A, B, i, j, ks) ==
    IF ks = {} THEN 0
    ELSE LET k == CHOOSE x \in ks : TRUE
         IN get_element(A, i, k) * get_element(B, k, j) + RefDot(A, B, i, j, ks \ {k})

\* C3: for A.num_cols = B.num_rows, A * B is A.num_rows x B.num_cols,
\* get_element gives on it at every (i, j) the sum over all k of
\* A[i, k] * B[k, j], and it stores a key only where that sum is not 0.
C3_ProductIsReference ==
    (ret.op = "mul" /\ argA.num_cols = argB.num_rows) =>
        /\ ret.res.err = "none"
        /\ ret.res.value.num_rows = argA.num_rows
        /\ ret.res.value.num_cols = argB.num_cols
        /\ DOMAIN ret.res.value.elements \subseteq Keys
        /\ \A k \in Keys :
               get_element(ret.res.value, k[1], k[2]) = RefDot(argA, argB, k[1], k[2], Coords)
        /\ \A k \in DOMAIN ret.res.value.elements :
               RefDot(argA, argB, k[1], k[2], Coords) # 0

\* a product with one cell summing two non-zero terms to a non-zero value
\* and one cell whose two non-zero terms cancel
C3_Witness ==
    /\ ret.op = "mul" /\ ret.res.err = "none"
    /\ \E i \in Coords, j \in Coords :
           /\ \A k \in Coords : get_element(argA, i, k) * get_element(argB, k, j) # 0
           /\ <<i, j>> \notin DOMAIN ret.res.value.elements

\* C4: for same-shaped A and B, A + B and A - B have A's dimensions and
\* get_element gives on them, at every coordinate, the sum and the
\* difference of what it gives on A and on B.
C4_ElementwiseSumAndDifference ==
    (ret.op \in {"add", "sub"} /\ SameShape(argA, argB)) =>
        /\ ret.res.err = "none"
        /\ SameShape(ret.res.value, argA)
        /\ DOMAIN ret.res.value.elements \subseteq Keys
        /\ \A k \in Keys :
               get_element(ret.res.value, k[1], k[2]) =
                   IF ret.op = "add"
                   THEN get_element(argA, k[1], k[2]) + get_element(argB, k[1], k[2])
                   ELSE get_element(argA, k[1], k[2]) - get_element(argB, k[1], k[2])

\* A - B with a key only in A, a key only in B and a shared key whose
\* values are equal
C4_Witness ==
    /\ ret.op = "sub" /\ ret.res.err = "none"
    /\ \E k \in DOMAIN argA.elements :
           k \in DOMAIN argB.elements /\ argA.elements[k] = argB.elements[k]
              /\ argA.elements[k] # 0
    /\ \E k \in DOMAIN argA.elements : k \notin DOMAIN argB.elements
    /\ \E k \in DOMAIN argB.elements : k \notin DOMAIN argA.elements

WellFormed(M) == NoStoredZero(M) /\ InBounds(M)

\* C10: when both operands satisfy I1 (no stored zero) and I2 (every key
\* within the matrix's own dimensions) and pass the dimension check, the
\* matrix Add, Subtract or Multiply returns satisfies I1 and I2 for its own
\* dimensions.
C10_ArithmeticKeepsWellFormed ==
    (ret.op \in Arith /\ ret.res.err = "none"
         /\ WellFormed(argA) /\ WellFormed(argB))
        => WellFormed(ret.res.value)

\* a product of well-formed operands in which a cell's terms cancel
C10_Witness ==
    /\ ret.op = "mul" /\ ret.res.err = "none"
    /\ WellFormed(argA) /\ WellFormed(argB)
    /\ ret.res.value.elements # EmptyDict
    /\ \E i \in Coords, j \in Coords :
           /\ \A k \in Coords : get_element(argA, i, k) * get_element(argB, k, j) # 0
           /\ <<i, j>> \notin DOMAIN ret.res.value.elements

(***************************************************************************)
(* set_element and get_element on one matrix created by dimensions        *)
(* (specification SpecSet).  argA is the matrix; hist records the          *)
(* dimensions it was created with, for every key the value of the most     *)
(* recent set_element on it (0 before the first), and whether the most     *)
(* recent call found its key stored and removed it.                        *)
(***************************************************************************)
InitSet ==
    /\ \E nr \in Dims, nc \in Dims :
           /\ argA = NewMatrix(nr, nc)
           /\ hist = [rows |-> nr, cols |-> nc, val |-> [k \in Keys |-> 0],
                      removed |-> FALSE]
    /\ argB = Idle /\ ret = Idle /\ heap = Idle /\ last = Idle

\* argA.set_element(row, col, value)
CallSet(row, col, value) ==
    /\ \/ value = 0
       \/ <<row, col>> \in DOMAIN argA.elements
       \/ Cardinality(DOMAIN argA.elements) < MaxEntries
    /\ argA' = set_element(argA, row, col, value)
    /\ hist' = [hist EXCEPT !.val[<<row, col>>] = value,
                            !.removed = (value = 0 /\ <<row, col>> \in DOMAIN argA.elements)]
    /\ UNCHANGED <<heap, last, argB, ret>>

NextSet == \E row \in Coords, col \in Coords, value \in Vals : CallSet(row, col, value)

SpecSet == InitSet /\ [][NextSet]_vars

\* C9: after any sequence of set_element calls on a matrix created by
\* dimensions, get_element(r, c) is the value of the most recent
\* set_element on (r, c), or 0 if there was none, whether (r, c) is inside
\* the declared dimensions or not; the key is stored iff that value is not
\* 0; no other key is stored, and the dimensions are those of creation.
C9_GetReturnsLastSet ==
    /\ argA.num_rows = hist.rows /\ argA.num_cols = hist.cols
    /\ DOMAIN argA.elements \subseteq Keys
    /\ \A k \in Keys :
           /\ get_element(argA, k[1], k[2]) = hist.val[k]
           /\ (k \in DOMAIN argA.elements) <=> (hist.val[k] # 0)

\* set_element(r, c, 0) has just removed a stored key that lies outside the
\* declared dimensions, and another key is still stored
C9_Witness ==
    /\ hist.removed
    /\ argA.elements # EmptyDict
    /\ \E k \in Keys : /\ hist.val[k] = 0
                       /\ k \notin DOMAIN argA.elements
                       /\ k[1] >= argA.num_rows

(***************************************************************************)
(* __str__ and the reader, one after the other (specification SpecText):   *)
(* argA is a matrix, ret the text __str__ gives for it and then what the   *)
(* reader makes of a file holding that text.  The matrices have negative   *)
(* and two-digit coordinates and values too.                               *)
(***************************************************************************)
WideCoords == {-1, 0, 1, 10}
WideVals == {-12, -1, 0, 1, 12}
WideKeys == WideCoords \X WideCoords
TextShapes == {<<0, 10>>, <<12, 3>>}

InitText ==
    /\ argA \in Matrices(TextShapes, WideKeys, WideVals, MaxEntries)
    /\ ret = [op |-> "none"]
    /\ argB = Idle /\ heap = Idle /\ last = Idle /\ hist = Idle

\* file.write(str(argA))
CallStr ==
    /\ ret.op = "none"
    /\ ret' = [op |-> "str", text |-> Str(argA)]
    /\ UNCHANGED <<heap, last, argA, argB, hist>>

\* SparseMatrix(path) on the file just written
CallRead ==
    /\ ret.op = "str"
    /\ ret' = [op |-> "read", text |-> ret.text, res |-> ReadMatrixFromFile(ret.text)]
    /\ UNCHANGED <<heap, last, argA, argB, hist>>

NextText == CallStr \/ CallRead

SpecText == InitText /\ [][NextText]_vars

\* ascending lexicographic order of (row, col)
LexBefore(p, q) == p[1] < q[1] \/ (p[1] = q[1] /\ p[2] < q[2])

\* the text lists, after its two header lines, the stored entries of M, one
\* line each, in ascending order of (row, col)
ListsEntriesInOrder(text, M) ==
    LET lines == Split(text, "\n")
        n == Cardinality(DOMAIN M.elements)
    IN /\ Len(lines) = 2 + n
       /\ \A i \in 1..n :
              LET e == EntryValue(lines[2 + i])
              IN /\ e.ok
                 /\ <<e.row, e.col>> \in DOMAIN M.elements
                 /\ M.elements[<<e.row, e.col>>] = e.value
       /\ \A i \in 1..n, j \in 1..n :
              i < j => LexBefore(<<EntryValue(lines[2 + i]).row, EntryValue(lines[2 + i]).col>>,
                                 <<EntryValue(lines[2 + j]).row, EntryValue(lines[2 + j]).col>>)

\* C7: round trip.  For a matrix M that satisfies I1, reading the text
\* str(M) succeeds and gives a matrix with M's num_rows and num_cols and
\* with M's get_element value at every coordinate; and str(M) lists the
\* stored entries, one line each, in ascending order of (row, col).
C7_RoundTrip ==
    /\ (ret.op = "read" /\ NoStoredZero(argA)) =>
           /\ ret.res.err = "none"
           /\ ret.res.value.num_rows = argA.num_rows
           /\ ret.res.value.num_cols = argA.num_cols
           /\ DOMAIN ret.res.value.elements \subseteq WideKeys
           /\ \A k \in WideKeys :
                  get_element(ret.res.value, k[1], k[2]) = get_element(argA, k[1], k[2])
    /\ (ret.op \in {"str", "read"} /\ NoStoredZero(argA)) =>
           ListsEntriesInOrder(ret.text, argA)

\* a matrix with a negative value at a two-digit row and an entry at a
\* one-digit row has been written and read back
C7_Witness ==
    /\ ret.op = "read" /\ NoStoredZero(argA)
    /\ \E p \in DOMAIN argA.elements, q \in DOMAIN argA.elements :
           /\ p[1] = 10 /\ q[1] = 1
           /\ argA.elements[p] < 0
           /\ q[2] < 0

====
